---- MODULE Spec2Model ----
(***************************************************************************)
(* CvCamera (pibooth/controls/camera/opencv.py): the OpenCV camera of the  *)
(* photo booth.  The state is the object's fields (_cam, _window,          *)
(* _overlay, _overlay_mask, _captures, the flip flags) and the position of *)
(* the one control thread inside the blocking preview_countdown and        *)
(* preview_wait loops; log holds the calls the last step made on the       *)
(* device, the window, pygame and cv2.imwrite.                             *)
(***************************************************************************)
EXTENDS Integers, Sequences, FiniteSets, TLC

(* ------------------------------ bounds --------------------------------- *)
MaxSeconds == 2      \* longest countdown / wait that is tried, in seconds
MaxFrame   == 1      \* the device delivers the raw frames 1..MaxFrame
TPS        == 2      \* clock ticks per second

(* ------------------------------ values --------------------------------- *)
Paths   == {"a.jpg", "b.jpg"}
NoWindow == "None"
Windows == {"win"}
NoCam   == "None"

\* Arguments tried for capture(effect=...); "None" is Python's None, which
\* str() turns into the text None.
EffectInputs == {"None", "Blur", "bogus", "NONE "}

IMAGE_EFFECTS ==
    {"none", "blur", "contour", "detail", "edge_enhance", "edge_enhance_more",
     "emboss", "find_edges", "smooth", "smooth_more", "sharpen"}

\* str(effect).lower() on the arguments tried
Lower(e) ==
    CASE e = "None"  -> "none"
      [] e = "Blur"  -> "blur"
      [] e = "NONE " -> "none "
      [] OTHER       -> e

\* Arguments tried for the timeout of preview_countdown / preview_wait, in
\* clock ticks (so halves of a second are tried too).
TimeoutInputs == (0 - TPS) .. (MaxSeconds * TPS)

\* int(timeout): truncation towards zero
IntTrunc(t) == IF t >= 0 THEN t \div TPS ELSE 0 - ((0 - t) \div TPS)

(* overlays: the text that was rendered *)
NoOverlay == [kind |-> "none", n |-> 0]
Num(k)    == [kind |-> "num", n |-> k]
Smile     == [kind |-> "smile", n |-> 0]

(* images: the raw frame they come from (0: no image, Python's None), the  *)
(* mirrorings applied, and the overlay composited on them                  *)
NoImage == [img |-> 0, hmirror |-> FALSE, vmirror |-> FALSE, ov |-> NoOverlay]
Image(r, h, v, o) == [img |-> r, hmirror |-> h, vmirror |-> v, ov |-> o]

NoCapture == [img |-> 0, effect |-> ""]

(* the trace of one handler step: the calls it made on its collaborators   *)
(* (dev: the state the device was in, for the calls made on the device)    *)
(* (rect: the changed region show_image returned, or the region given to   *)
(* pygame.display.update)                                                  *)
NoRect == "None"
Rects  == {"rect1", "rect2"}
Ev(e, im, c) == [ev |-> e, im |-> im, dev |-> c, rect |-> NoRect]
EvRect(e, im, rc) == [ev |-> e, im |-> im, dev |-> "", rect |-> rc]
EvRead(r, c) == Ev("read", Image(r, FALSE, FALSE, NoOverlay), c)
EvRelease(c) == Ev("release", NoImage, c)
EvRender(o)  == Ev("render", Image(0, FALSE, FALSE, o), "")
EvShow(im)   == Ev("show", im, "")
EvPlain(e)   == Ev(e, NoImage, "")

NoCall == [op |-> "init", path |-> "", effect |-> "", ticks |-> 0]
Call(o, p, e, t) == [op |-> o, path |-> p, effect |-> e, ticks |-> t]

VARIABLES
    cam,            \* state of the cv2.VideoCapture held by _cam
    window,         \* _window
    preview_hflip,  \* _preview_hflip
    capture_hflip,  \* _capture_hflip
    overlay,        \* _overlay
    overlay_mask,   \* _overlay_mask
    captures,       \* _captures
    pc,             \* "idle", or the loop the control thread is in
    timeout,        \* the local variable timeout of preview_countdown
    timer_timeout,  \* PoolingTimer.timeout of the running loop
    elapsed,        \* time.time() - PoolingTimer.time, in ticks
    step,           \* granularity of the clock during the running loop
    call,           \* the handler that took the last step, its arguments
    ret,            \* how it ended: "ok", "running" or the exception raised
    log,            \* the calls it made on the device, the sink and pygame
    geom,           \* sizes: of a raw frame, the resolution, the window...
    px              \* one pixel: of the overlay, of the frame, of the result

vars == <<cam, window, preview_hflip, capture_hflip, overlay,
          overlay_mask, captures, pc, timeout, timer_timeout, elapsed,
          step, call, ret, log, geom, px>>

\* the sizes and the pixel values are followed in specifications of their
\* own (GeomSpec, PixelSpec); the operations of the session leave them alone
pureVars == <<geom, px>>
NoGeom == [stage |-> "none"]
NoPx   == [stage |-> "none"]

overlayVars == <<overlay, overlay_mask>>
loopVars    == <<pc, timeout, timer_timeout, elapsed, step>>

(* ---------------------------- constructor ------------------------------ *)
SessionInit ==
    /\ cam = "open"
    /\ window = NoWindow
    /\ preview_hflip = FALSE
    /\ capture_hflip \in BOOLEAN
    /\ overlay = NoOverlay
    /\ overlay_mask = NoOverlay
    /\ captures = [p \in Paths |-> NoCapture]
    /\ pc = "idle"
    /\ timeout = 0
    /\ timer_timeout = 0
    /\ elapsed = 0
    /\ step = 1
    /\ call = NoCall
    /\ ret = "ok"
    /\ log = <<>>

Init ==
    /\ SessionInit
    /\ geom = NoGeom
    /\ px = NoPx

(* ------------------------------ helpers -------------------------------- *)
\* a released device that still delivers frames
ReadOutcomes_Always(c) == 0 .. MaxFrame

\* self._cam.read(): 0 stands for ret == False.  A released VideoCapture
\* delivers no frame.
ReadOutcomes(c) == IF c = "open" THEN 0 .. MaxFrame ELSE {0}

\* _show_overlay: nothing happens without a window
ShowOverlay(w, old, text) == IF w # NoWindow THEN text ELSE old

\* _hide_overlay
HideOverlay == NoOverlay

\* cv2.flip(image, code): code 0 flips around the x axis (top and bottom
\* change places), a positive code around the y axis (left and right change
\* places), a negative code around both
CvFlip(im, code) ==
    [im EXCEPT !.hmirror = IF code # 0 THEN ~im.hmirror ELSE im.hmirror,
               !.vmirror = IF code <= 0 THEN ~im.vmirror ELSE im.vmirror]

\* the failed read not noticed: an image is built all the same
GetPreviewImage_NoCheck(r, hflip, ov) == Image(r + 1, hflip, FALSE, ov)

\* _get_preview_image, given what the read returned
GetPreviewImage(r, hflip, ov) ==
    IF r = 0 THEN NoImage
    ELSE LET im == Image(r, FALSE, FALSE, NoOverlay)
             flipped == IF hflip THEN CvFlip(im, 1) ELSE im
         IN  [flipped EXCEPT !.ov = ov]

\* DisplaySink.show_image: the changed region it reports, if any
DirtyOutcomes(im) == IF im = NoImage THEN {NoRect} ELSE {NoRect} \cup Rects

(* ------------------------------ preview -------------------------------- *)
Preview(w, flip) ==
    /\ pc = "idle"
    /\ window' = w
    /\ preview_hflip' = flip
    /\ \E r \in ReadOutcomes(cam) :
          log' = <<EvRead(r, cam), EvShow(GetPreviewImage(r, flip, overlay))>>
    /\ UNCHANGED pureVars
    /\ call' = Call("preview", "", "", 0)
    /\ ret' = "ok"
    /\ UNCHANGED <<cam, capture_hflip, overlayVars, captures,
                   loopVars>>

(* --------------------------- PoolingTimer ------------------------------ *)
\* PoolingTimer.is_timeout(): has the duration elapsed
IsTimeout == elapsed >= timer_timeout * TPS

\* PoolingTimer.remaining(): the time remaining, in ticks
Remaining ==
    IF timer_timeout * TPS - elapsed > 0 THEN timer_timeout * TPS - elapsed
    ELSE 0

\* the time passes while a loop runs; nothing reads the clock once the
\* timer has expired
Tick ==
    /\ pc # "idle"
    /\ elapsed < timer_timeout * TPS
    /\ elapsed' = elapsed + step
    /\ UNCHANGED pureVars
    /\ call' = Call("tick", "", "", 0)
    /\ log' = <<>>
    /\ UNCHANGED <<cam, window, preview_hflip, capture_hflip, overlayVars,
                   captures, pc, timeout, timer_timeout, step, ret>>

(* ------------------------ countdown and wait --------------------------- *)
\* a duration of zero let through
DurationRejected_Negative(n) == n < 0

\* if timeout < 1: raise ValueError
DurationRejected(n) == n < 1

\* the loop left a second early
LoopContinues_Early == elapsed + TPS < timer_timeout * TPS

\* while not timer.is_timeout()
LoopContinues == ~IsTimeout

\* remaining = int(timer.remaining() + 1)
RemainingInt == (Remaining \div TPS) + 1

\* if self._overlay is None or remaining != timeout
Rerender(ov, remaining, last) == ov = NoOverlay \/ remaining # last

\* the display flushed whatever the window reported, before the events
\* are pumped
IterLog_FlushFirst(rendered, r, im, dirty) ==
    rendered \o <<EvRead(r, cam), EvRect("show", im, dirty),
                  EvRect("flush", NoImage, dirty), EvPlain("pump")>>

\* what one pass of the loop body calls, in order: show_image, then
\* pygame.event.pump(), then if updated_rect: pygame.display.update(it)
IterLog(rendered, r, im, dirty) ==
    rendered \o <<EvRead(r, cam), EvRect("show", im, dirty), EvPlain("pump")>>
             \o (IF dirty # NoRect THEN <<EvRect("flush", NoImage, dirty)>>
                 ELSE <<>>)

LoopReset ==
    /\ pc' = "idle"
    /\ timeout' = 0
    /\ timer_timeout' = 0
    /\ elapsed' = 0
    /\ step' = 1

\* self._window is None: self._window.show_image raises
NoWindowError ==
    /\ ret' = "AttributeError"
    /\ log' = <<>>
    /\ LoopReset
    /\ UNCHANGED overlayVars

TimedCall(name, t, g) ==
    /\ pc = "idle"
    /\ UNCHANGED pureVars
    /\ call' = Call(name, "", "", t)
    /\ log' = <<>>
    /\ IF DurationRejected(IntTrunc(t))
       THEN /\ ret' = "ValueError"
            /\ UNCHANGED loopVars
       ELSE /\ ret' = "running"
            /\ pc' = name
            /\ timeout' = IntTrunc(t)
            /\ timer_timeout' = IntTrunc(t)
            /\ elapsed' = 0
            /\ step' = g
    /\ UNCHANGED <<cam, window, preview_hflip, capture_hflip, overlayVars,
                   captures>>

PreviewCountdown(t, g) == TimedCall("preview_countdown", t, g)

PreviewWait(t, g) == TimedCall("preview_wait", t, g)

CountdownIter ==
    /\ pc = "preview_countdown"
    /\ LoopContinues
    /\ UNCHANGED pureVars
    /\ call' = Call("countdown_iter", "", "", 0)
    /\ LET remaining == RemainingInt
           rerender  == Rerender(overlay, remaining, timeout)
           ov        == IF rerender
                        THEN ShowOverlay(window, overlay, Num(remaining))
                        ELSE overlay
       IN  IF window = NoWindow
           THEN NoWindowError
           ELSE /\ overlay' = ov
                /\ overlay_mask' = ov
                /\ timeout' = IF rerender THEN remaining ELSE timeout
                /\ ret' = "running"
                /\ \E r \in ReadOutcomes(cam) :
                     LET im == GetPreviewImage(r, preview_hflip, ov) IN
                     \E d \in DirtyOutcomes(im) :
                        log' = IterLog(IF rerender THEN <<EvRender(ov)>>
                                       ELSE <<>>, r, im, d)
                /\ UNCHANGED <<pc, timer_timeout, elapsed, step>>
    /\ UNCHANGED <<cam, window, preview_hflip, capture_hflip, captures>>

WaitIter ==
    /\ pc = "preview_wait"
    /\ LoopContinues
    /\ UNCHANGED pureVars
    /\ call' = Call("wait_iter", "", "", 0)
    /\ IF window = NoWindow
       THEN NoWindowError
       ELSE /\ ret' = "running"
            /\ \E r \in ReadOutcomes(cam) :
                 LET im == GetPreviewImage(r, preview_hflip, overlay) IN
                 \E d \in DirtyOutcomes(im) : log' = IterLog(<<>>, r, im, d)
            /\ UNCHANGED <<overlayVars, loopVars>>
    /\ UNCHANGED <<cam, window, preview_hflip, capture_hflip, captures>>

\* after the loop: the smile message, then one more frame
LoopEnd(name, stepname) ==
    /\ pc = name
    /\ ~LoopContinues
    /\ UNCHANGED pureVars
    /\ call' = Call(stepname, "", "", 0)
    /\ IF window = NoWindow
       THEN NoWindowError
       ELSE LET ov == ShowOverlay(window, overlay, Smile) IN
            /\ overlay' = ov
            /\ overlay_mask' = ov
            /\ ret' = "ok"
            /\ \E r \in ReadOutcomes(cam) :
                 log' = <<EvRender(ov), EvRead(r, cam),
                          EvShow(GetPreviewImage(r, preview_hflip, ov))>>
            /\ LoopReset
    /\ UNCHANGED <<cam, window, preview_hflip, capture_hflip, captures>>

CountdownEnd == LoopEnd("preview_countdown", "countdown_end")

WaitEnd == LoopEnd("preview_wait", "wait_end")

(* ----------------------------- stop_preview ---------------------------- *)
\* the sink left bound
WindowAfterStop_Kept(w) == w

\* self._window = None
WindowAfterStop(w) == NoWindow

StopPreview ==
    /\ pc = "idle"
    /\ overlay' = HideOverlay
    /\ overlay_mask' = HideOverlay
    /\ window' = WindowAfterStop(window)
    /\ UNCHANGED pureVars
    /\ call' = Call("stop_preview", "", "", 0)
    /\ ret' = "ok"
    /\ log' = <<EvPlain("hide")>>
    /\ UNCHANGED <<cam, preview_hflip, capture_hflip, captures,
                   loopVars>>

(* ------------------------------- capture ------------------------------- *)
\* the validation of the effect name left out
EffectAccepted_Any(e) == TRUE

\* if effect not in self.IMAGE_EFFECTS: raise ValueError
EffectAccepted(e) == Lower(e) \in IMAGE_EFFECTS

\* the effect stored as it was given
StoredEffect_AsGiven(e) == e

\* effect = str(effect).lower(), and self._captures[filename] = (image, effect)
StoredEffect(e) == Lower(e)

\* the result of the read not looked at
CaptureReadOk_Unchecked(r) == TRUE

\* if not ret: raise IOError
CaptureReadOk(r) == r # 0

Capture(f, e) ==
    /\ pc = "idle"
    /\ UNCHANGED pureVars
    /\ call' = Call("capture", f, e, 0)
    /\ IF ~EffectAccepted(e)
       THEN /\ ret' = "ValueError"
            /\ log' = <<>>
            /\ UNCHANGED <<captures, overlayVars>>
       ELSE \E r \in ReadOutcomes(cam) :
              IF ~CaptureReadOk(r)
              THEN /\ ret' = "IOError"
                   /\ log' = <<EvRead(r, cam)>>
                   /\ UNCHANGED <<captures, overlayVars>>
              ELSE /\ captures' = [captures EXCEPT
                                     ![f] = [img |-> r, effect |-> StoredEffect(e)]]
                   /\ overlay' = HideOverlay
                   /\ overlay_mask' = HideOverlay
                   /\ ret' = "ok"
                   /\ log' = <<EvRead(r, cam), EvPlain("store"), EvPlain("sleep"),
                               EvPlain("hide")>>
    /\ UNCHANGED <<cam, window, preview_hflip, capture_hflip,
                   loopVars>>

(* ------------------------- _post_process_capture ----------------------- *)
\* the entry popped from the mapping
CapturesAfterPostProcess_Pop(c, f) == [c EXCEPT ![f] = NoCapture]

\* image, effect = self._captures[capture_path]: the entry is read and stays
CapturesAfterPostProcess(c, f) == c

\* if self._capture_hflip: image = cv2.flip(image, 0)
PostProcessImage(c, flip) ==
    LET im == Image(c.img, FALSE, FALSE, NoOverlay) IN
    IF flip THEN CvFlip(im, 0) ELSE im

PostProcessCapture(f) ==
    /\ pc = "idle"
    /\ UNCHANGED pureVars
    /\ call' = Call("post_process", f, "", 0)
    /\ IF captures[f] = NoCapture
       THEN /\ ret' = "KeyError"
            /\ log' = <<>>
            /\ UNCHANGED captures
       ELSE LET im == PostProcessImage(captures[f], capture_hflip) IN
            /\ captures' = CapturesAfterPostProcess(captures, f)
            /\ ret' = "ok"
            /\ log' = <<Ev("imwrite", im, "")>>
    /\ UNCHANGED <<cam, window, preview_hflip, capture_hflip, overlayVars,
                   loopVars>>

(* -------------------------------- quit --------------------------------- *)
\* a release that refuses a device released before
ReleaseResult_Once(c) == IF c = "open" THEN "ok" ELSE "IOError"

\* self._cam.release(): cv2 releases an opened device and does nothing on a
\* released one; it raises in neither case
ReleaseResult(c) == "ok"

\* the guard testing whether the device is still opened
QuitReleases_IfOpened(c) == c = "open"

\* if self._cam: the field keeps the VideoCapture object, released or not
QuitReleases(c) == c # NoCam

Quit ==
    /\ pc = "idle"
    /\ UNCHANGED pureVars
    /\ call' = Call("quit", "", "", 0)
    /\ IF QuitReleases(cam)
       THEN /\ cam' = "released"
            /\ ret' = ReleaseResult(cam)
            /\ log' = <<EvRelease(cam)>>
       ELSE /\ log' = <<>>
            /\ ret' = "ok"
            /\ UNCHANGED cam
    /\ UNCHANGED <<window, preview_hflip, capture_hflip, overlayVars, captures, loopVars>>

Granularities == {1, TPS}

Next ==
    \/ \E w \in Windows, flip \in BOOLEAN : Preview(w, flip)
    \/ \E t \in TimeoutInputs, g \in Granularities : PreviewCountdown(t, g)
    \/ \E t \in TimeoutInputs, g \in Granularities : PreviewWait(t, g)
    \/ CountdownIter
    \/ WaitIter
    \/ CountdownEnd
    \/ WaitEnd
    \/ Tick
    \/ StopPreview
    \/ \E f \in Paths, e \in EffectInputs : Capture(f, e)
    \/ \E f \in Paths : PostProcessCapture(f)
    \/ Quit

Spec == Init /\ [][Next]_vars

TypeOK ==
    /\ cam \in {"open", "released"}
    /\ window \in Windows \cup {NoWindow}
    /\ pc \in {"idle", "preview_countdown", "preview_wait"}
    /\ elapsed \in 0 .. (MaxSeconds * TPS + TPS)

\* the control thread inside a loop takes its next step
LoopStep == CountdownIter \/ WaitIter \/ CountdownEnd \/ WaitEnd

\* the thread keeps running and the clock keeps advancing
FairSpec ==
    /\ Init
    /\ [][Next]_vars
    /\ WF_vars(Tick)
    /\ WF_vars(LoopStep)

(* ------------------------------ properties ----------------------------- *)
HasEv(l, e) == \E i \in DOMAIN l : l[i].ev = e
ReadFailed(l) == \E i \in DOMAIN l : l[i].ev = "read" /\ l[i].im.img = 0
InLoop(p) == p \in {"preview_countdown", "preview_wait"}
SessionUnchanged ==
    /\ overlay' = overlay
    /\ overlay_mask' = overlay_mask
    /\ window' = window
    /\ captures' = captures

\* C1: capture with an effect name that, lower-cased, is not one of
\* IMAGE_EFFECTS raises ValueError; that step makes no call on the device
\* (or on anything else), and leaves every pending capture and the overlay
\* and its mask as they were.
C1_InvalidEffectRejected ==
    [][(call'.op = "capture" /\ Lower(call'.effect) \notin IMAGE_EFFECTS)
          => /\ ret' = "ValueError"
             /\ log' = <<>>
             /\ cam' = cam
             /\ captures' = captures
             /\ overlay' = overlay
             /\ overlay_mask' = overlay_mask]_vars

\* capture("bogus") was refused while the device was open, an overlay was
\* shown and a capture was pending
C1_Witness ==
    /\ call.op = "capture"
    /\ call.effect = "bogus"
    /\ ret = "ValueError"
    /\ cam = "open"
    /\ overlay = Smile
    /\ captures[call.path] # NoCapture

C3_CountdownNumbers ==
    (call.op = "countdown_iter" /\ step = TPS /\ window # NoWindow)
        => \A i \in DOMAIN log :
              log[i].ev = "render"
                 => /\ log[i].im.ov.kind = "num"
                    /\ log[i].im.ov.n >= 1
                    /\ log[i].im.ov.n <= timer_timeout

C5_FailedCaptureRead ==
    [][(call'.op = "capture" /\ ReadFailed(log'))
          => /\ ret' = "IOError"
             /\ captures' = captures]_vars

\* the read of a capture failed for a destination that was pending already
C5_Witness ==
    /\ call.op = "capture"
    /\ ret = "IOError"
    /\ ReadFailed(log)
    /\ captures[call.path] # NoCapture

\* C6: a read that fails while a preview frame is fetched (in preview, in a
\* pass of the countdown or wait loop) raises nothing: the window is handed
\* no image for that pass and nothing is flushed, the loop goes on with the
\* same timer (preview returns normally), and a loop stops only on a timer
\* that has expired.
C6_FailedPreviewRead ==
    [][/\ (call'.op \in {"preview", "countdown_iter", "wait_iter"}
             /\ ReadFailed(log'))
            => /\ ret' \in {"ok", "running"}
               /\ \A i \in DOMAIN log' :
                     /\ log'[i].ev = "show" => log'[i].im = NoImage
                     /\ log'[i].ev # "flush"
               /\ HasEv(log', "show")
               /\ pc' = pc
               /\ timer_timeout' = timer_timeout
               /\ elapsed' = elapsed
       /\ (InLoop(pc) /\ pc' = "idle" /\ window # NoWindow)
            => elapsed >= timer_timeout * TPS]_vars

\* the read failed in a pass of the countdown loop although the device is
\* open, and the loop is still running
C6_Witness ==
    /\ call.op = "countdown_iter"
    /\ ReadFailed(log)
    /\ cam = "open"
    /\ pc = "preview_countdown"
    /\ ret = "running"

\* C7: preview_countdown and preview_wait called with less than one second
\* raise ValueError at once: the step makes no call on the device, the
\* window or pygame, starts no loop, and leaves the overlay, its mask, the
\* window and the pending captures as they were.
C7_ShortDurationRejected ==
    [][(call'.op \in {"preview_countdown", "preview_wait"}
          /\ call'.ticks < TPS)
          => /\ ret' = "ValueError"
             /\ log' = <<>>
             /\ pc' = "idle"
             /\ SessionUnchanged]_vars

\* half a second was refused while a window was bound and an overlay shown
C7_Witness ==
    /\ call.op = "preview_countdown"
    /\ call.ticks = TPS - 1
    /\ ret = "ValueError"
    /\ window # NoWindow
    /\ overlay = Smile

\* C8 as claimed: release is invoked on the device at most once, however
\* often quit is called: it is never invoked on a device that is released.
C8_ReleasedOnce ==
    \A i \in DOMAIN log : log[i].ev = "release" => log[i].dev = "open"

\* C8, amended: quit always leaves the device released and raises nothing,
\* and a released device never becomes open again; every quit, also one on
\* a device that is released already, invokes release on it.
C8_QuitReleasesEveryTime ==
    [][/\ call'.op = "quit"
            => /\ cam' = "released"
               /\ ret' = "ok"
               /\ log' = <<EvRelease(cam)>>
       /\ cam = "released" => cam' = "released"]_vars

\* quit was called on a device that was released already
C8_Witness ==
    /\ call.op = "quit"
    /\ log = <<EvRelease("released")>>
    /\ cam = "released"
    /\ ret = "ok"

\* C9 as claimed: once the device is released, no step reads from it, adds
\* or replaces a pending capture, binds a window or enters a loop.
C9_NoUseAfterQuit ==
    [][cam = "released"
          => /\ ~HasEv(log', "read")
             /\ captures' = captures
             /\ cam' = "released"
             /\ (window = NoWindow => window' = NoWindow)
             /\ (pc = "idle" => pc' = "idle")]_vars

\* C9, amended: once the device is released it stays released; the later
\* operations are not refused (preview binds its window) and still read
\* from the device, but every such read fails, so that no image reaches the
\* window and no pending capture is added or replaced: capture with a valid
\* effect raises IOError.
C9_ReleasedDeviceDeliversNothing ==
    [][cam = "released"
          => /\ cam' = "released"
             /\ captures' = captures
             /\ \A i \in DOMAIN log' :
                   /\ log'[i].ev = "read" => log'[i].im.img = 0
                   /\ log'[i].ev = "show" => log'[i].im = NoImage
             /\ call'.op \in {"preview", "countdown_iter", "wait_iter"}
                   => (HasEv(log', "read") \/ ret' = "AttributeError")
             /\ call'.op = "preview" => window' \in Windows
             /\ (call'.op = "capture" /\ EffectAccepted(call'.effect))
                   => (ret' = "IOError" /\ ReadFailed(log'))]_vars

\* preview was started after quit and read from the released device
C9_Witness ==
    /\ cam = "released"
    /\ call.op = "preview"
    /\ window # NoWindow
    /\ ReadFailed(log)

C11_CaptureStoresFrameAndEffect ==
    [][(call'.op = "capture" /\ ret' = "ok")
          => /\ Cardinality({i \in DOMAIN log' : log'[i].ev = "read"}) = 1
             /\ log'[1].ev = "read"
             /\ log'[1].im.img # 0
             /\ log'[2].ev = "store"
             /\ log'[3].ev = "sleep"
             /\ captures'[call'.path] = [img |-> log'[1].im.img,
                                         effect |-> Lower(call'.effect)]
             /\ captures'[call'.path].effect \in IMAGE_EFFECTS
             /\ (call'.effect = "None"
                   => captures'[call'.path].effect = "none")
             /\ overlay' = NoOverlay
             /\ ~HasEv(log', "imwrite")]_vars

\* capture was called without an effect while the window was still bound
C11_Witness ==
    /\ call.op = "capture"
    /\ ret = "ok"
    /\ call.effect = "None"
    /\ captures[call.path].effect = "none"
    /\ window # NoWindow
    /\ overlay = NoOverlay

\* C12: the frames that the loop of preview_wait hands to the window carry
\* no overlay, whatever overlay was there when preview_wait was called.
C12_WaitLoopShowsNoOverlay ==
    call.op = "wait_iter"
        => \A i \in DOMAIN log :
              log[i].ev = "show" => log[i].im.ov = NoOverlay

\* C14: quit raises nothing, on a device that is open and on one that was
\* released by an earlier quit.
C14_QuitNeverRaises == call.op = "quit" => (ret = "ok" /\ cam = "released")

\* the second of two calls of quit has returned
C14_Witness ==
    /\ call.op = "quit"
    /\ Len(log) = 1
    /\ log[1].ev = "release"
    /\ log[1].dev = "released"
    /\ ret = "ok"

\* C15: after a pass of the loop of preview_countdown the overlay is the
\* number of seconds computed in that pass, and so is the overlay on the
\* frame the pass handed to the window.
C15_CountdownShowsRemaining ==
    (call.op = "countdown_iter" /\ ret = "running")
        => /\ overlay = Num(RemainingInt)
           /\ \A i \in DOMAIN log :
                 (log[i].ev = "show" /\ log[i].im.img # 0)
                    => log[i].im.ov = Num(RemainingInt)

\* C17: a pass of the loop of preview_countdown or preview_wait calls
\* show_image once, then pygame.event.pump() once, and then
\* pygame.display.update with the region show_image returned if it returned
\* one, and nothing more if it returned none.
C17_ShowPumpFlush ==
    (call.op \in {"countdown_iter", "wait_iter"} /\ ret = "running")
        => /\ Cardinality({i \in DOMAIN log : log[i].ev = "show"}) = 1
           /\ Cardinality({i \in DOMAIN log : log[i].ev = "pump"}) = 1
           /\ LET k == CHOOSE i \in DOMAIN log : log[i].ev = "show" IN
              /\ Len(log) >= k + 1
              /\ log[k + 1].ev = "pump"
              /\ IF log[k].rect # NoRect
                 THEN /\ Len(log) = k + 2
                      /\ log[k + 2].ev = "flush"
                      /\ log[k + 2].rect = log[k].rect
                 ELSE Len(log) = k + 1

\* a pass of the wait loop flushed the region the window reported
C17_Witness ==
    /\ call.op = "wait_iter"
    /\ ret = "running"
    /\ \E i \in DOMAIN log : log[i].ev = "show" /\ log[i].rect = "rect2"
    /\ log[Len(log)] = EvRect("flush", NoImage, "rect2")

\* C19: the image that _post_process_capture writes is mirrored left to
\* right when _capture_hflip is set, as the preview is by its flip, and is
\* not mirrored otherwise; it is never turned upside down.
C19_CaptureFlipIsHorizontal ==
    (call.op = "post_process" /\ ret = "ok")
        => /\ log[1].im.hmirror = capture_hflip
           /\ log[1].im.vmirror = FALSE

\* ---------------------------------------------------------------------
\* Sizes.  A size is <<width, height>>; an array of shape (height, width,
\* channels) is modelled by its size.  The raw frame's size is whatever the
\* driver delivers: the cam.set() calls of __init__ are requests only.
\* ---------------------------------------------------------------------
MaxDim  == 3     \* frame and resolution widths and heights: 1..MaxDim
MaxView == 2     \* viewport widths and heights: 1..MaxView

Dims   == 1 .. MaxDim
Sizes  == Dims \X Dims
Views  == (1 .. MaxView) \X (1 .. MaxView)
NoSize == <<0, 0>>

CeilDiv(a, b) == (a + b - 1) \div b

\* sizing.new_size_keep_aspect_ratio(original, target, 'outer'): a size of
\* the original's aspect ratio that covers the target box.  The side that
\* is not the target's is a quotient; either rounding of it covers.
FitOuter(o, t) ==
    IF t[1] * o[2] > t[2] * o[1]
    THEN {<<t[1], (o[2] * t[1]) \div o[1]>>, <<t[1], CeilDiv(o[2] * t[1], o[1])>>}
    ELSE IF t[1] * o[2] < t[2] * o[1]
    THEN {<<(o[1] * t[2]) \div o[2], t[2]>>, <<CeilDiv(o[1] * t[2], o[2]), t[2]>>}
    ELSE {t}

\* sizing.new_size_by_croping(current, target): the centred rectangle
\* <<left, top, right, bottom>> of the target's size.
CenterCrop(c, t) ==
    LET x == (c[1] - t[1]) \div 2
        y == (c[2] - t[2]) \div 2
    IN  <<x, y, x + t[1], y + t[2]>>

\* Length of the numpy slice [lo:hi] of an axis of length n.
SliceIndex(i, n) == IF i < 0 THEN (IF i + n < 0 THEN 0 ELSE i + n)
                    ELSE (IF i > n THEN n ELSE i)
SliceLen(lo, hi, n) ==
    IF SliceIndex(hi, n) > SliceIndex(lo, n)
    THEN SliceIndex(hi, n) - SliceIndex(lo, n) ELSE 0

\* image[cropped[0]:cropped[2], cropped[1]:cropped[3]]: rows and columns
\* exchanged.
SliceSize_Swapped(size, c) ==
    <<SliceLen(c[2], c[4], size[1]), SliceLen(c[1], c[3], size[2])>>

\* image[cropped[1]:cropped[3], cropped[0]:cropped[2]]: rows top..bottom,
\* columns left..right.
SliceSize(size, c) ==
    <<SliceLen(c[1], c[3], size[1]), SliceLen(c[2], c[4], size[2])>>

\* _fit_to_resolution: the sizes the returned image can have.  cv2.resize
\* returns an image of exactly the size asked for.
FitToResolution(raw, res) ==
    {SliceSize(size, CenterCrop(size, res)) : size \in FitOuter(raw, res)}

\* image *= mask, image += overlay: numpy accepts an operand whose every
\* dimension is the image's or is 1, and raises ValueError otherwise.
Broadcasts(operand, im) ==
    /\ operand[1] = im[1] \/ operand[1] = 1
    /\ operand[2] = im[2] \/ operand[2] = 1

Geom(st, raw, res, rect, ov, mask, im, ok, wr) ==
    [stage |-> st, raw |-> raw, resolution |-> res, rect |-> rect,
     overlay |-> ov, mask |-> mask, image |-> im, ret |-> ok,
     written |-> wr]

sessionVars == <<cam, window, preview_hflip, capture_hflip, overlay,
                 overlay_mask, captures, pc, timeout, timer_timeout,
                 elapsed, step, call, ret, log>>

\* A camera of some resolution in front of a device delivering frames of
\* some size, with a window bound whose viewport is some rectangle.
GeomInit ==
    /\ SessionInit
    /\ capture_hflip = FALSE
    /\ px = NoPx
    /\ \E raw \in Sizes, res \in Sizes, rect \in Views :
          geom = Geom("idle", raw, res, rect, NoSize, NoSize, NoSize,
                      "ok", FALSE)

GeomStep(g) ==
    /\ geom.stage # "none"
    /\ geom' = g
    /\ UNCHANGED <<sessionVars, px>>

\* get_rect() answers with another rectangle: the window was resized, or
\* preview() bound another window.
GeomSetRect(r) ==
    /\ r # geom.rect
    /\ GeomStep([geom EXCEPT !.stage = "idle", !.rect = r,
                             !.image = NoSize, !.ret = "ok"])

\* _show_overlay: the layer is built at (rect.width, rect.height) and the
\* mask takes the layer's shape.
GeomShowOverlay ==
    GeomStep([geom EXCEPT !.stage = "idle", !.overlay = geom.rect,
                          !.mask = geom.rect, !.image = NoSize,
                          !.ret = "ok"])

\* stop_preview / capture: _hide_overlay.
GeomHideOverlay ==
    /\ geom.overlay # NoSize
    /\ GeomStep([geom EXCEPT !.stage = "idle", !.overlay = NoSize,
                             !.mask = NoSize, !.image = NoSize,
                             !.ret = "ok"])

\* _fit_to_resolution applied to the raw frame.
GeomFitToResolution ==
    \E im \in FitToResolution(geom.raw, geom.resolution) :
        GeomStep([geom EXCEPT !.stage = "fitted", !.image = im,
                              !.ret = "ok"])

\* _get_preview_image on a good read: fit to the resolution, outer fit to
\* the rectangle and resize, then the composite if an overlay is cached.
GeomPreviewImage ==
    \E fitted \in FitToResolution(geom.raw, geom.resolution) :
    \E im \in FitOuter(fitted, geom.rect) :
        GeomStep([geom EXCEPT
            !.stage = "preview", !.image = im,
            !.ret = IF geom.overlay = NoSize
                       \/ (Broadcasts(geom.mask, im)
                           /\ Broadcasts(geom.overlay, im))
                    THEN "ok" ELSE "ValueError"])

\* _post_process_capture of a frame captured with effect 'none': fit to the
\* resolution (a flip keeps the size), cv2.imwrite.
GeomPostProcess ==
    \E im \in FitToResolution(geom.raw, geom.resolution) :
        GeomStep([geom EXCEPT !.stage = "saved", !.image = im,
                              !.ret = "ok", !.written = TRUE])

GeomNext ==
    \/ \E r \in Views : GeomSetRect(r)
    \/ GeomShowOverlay
    \/ GeomHideOverlay
    \/ GeomFitToResolution
    \/ GeomPreviewImage
    \/ GeomPostProcess

GeomSpec == GeomInit /\ [][GeomNext]_vars

\* C13: for every raw frame size and every resolution, the image returned
\* by the fit step has exactly the resolution's size, and so has the image
\* of a post-processed capture, whose file has then been written.
C13_FitYieldsResolution ==
    /\ geom.stage = "fitted" => geom.image = geom.resolution
    /\ geom.stage = "saved" =>
          (geom.image = geom.resolution /\ geom.written)

\* A captured frame of another aspect ratio than the resolution's, so that
\* the outer fit exceeds the resolution and the crop takes something away,
\* has been post-processed and written.
C13_Witness ==
    /\ geom.stage = "saved"
    /\ geom.written
    /\ geom.raw[1] * geom.resolution[2] # geom.raw[2] * geom.resolution[1]
    /\ geom.resolution[1] # geom.resolution[2]
    /\ geom.image = geom.resolution

\* C16: whenever an overlay is composited onto a preview frame, the frame
\* coming out of the resize to the viewport has the width and height of the
\* cached overlay layer and of its mask.
C16_FrameMatchesOverlay ==
    (geom.stage = "preview" /\ geom.overlay # NoSize) =>
        (geom.image = geom.overlay /\ geom.image = geom.mask)

\* ---------------------------------------------------------------------
\* One pixel.  The overlay pixel is what build_overlay painted there
\* (red, green, blue; COLOR_RGBA2GRAY and COLOR_RGBA2RGB ignore alpha),
\* the frame pixel is what the resized camera frame holds there.  All
\* arrays are uint8.
\* ---------------------------------------------------------------------
Byte == 256

\* cv2.threshold(overlay_mask, 10, 1, cv2.THRESH_BINARY_INV)
Thresh == 10
MaxVal == 1

\* cv2's 8-bit gray conversion: fixed point, 14 fractional bits.
R2Y == 4899
G2Y == 9617
B2Y == 1868
GrayShift == 16384

OverlayLevels == {0, 8, 10, 11, 87, 255}
FrameLevels   == {0, 200, 255}

Gray(p) ==
    (R2Y * p[1] + G2Y * p[2] + B2Y * p[3] + (GrayShift \div 2)) \div GrayShift

\* THRESH_BINARY_INV: 0 where the source is above the threshold, maxval
\* elsewhere.
ThresholdInv(g) == IF g > Thresh THEN 0 ELSE MaxVal

\* uint8 in-place multiply and add of one channel: both wrap modulo 256.
Composite(f, m, o) == (((f * m) % Byte) + o) % Byte

Px(st, ov, fr, m, im) ==
    [stage |-> st, overlay |-> ov, frame |-> fr, mask |-> m, image |-> im]

PixelInit ==
    /\ SessionInit
    /\ capture_hflip = FALSE
    /\ geom = NoGeom
    /\ \E ov \in OverlayLevels \X OverlayLevels \X OverlayLevels,
          fr \in FrameLevels \X FrameLevels \X FrameLevels :
          px = Px("rendered", ov, fr, 0, <<0, 0, 0>>)

\* _show_overlay, lines 71-79: gray, threshold, the mask repeated over the
\* three channels, the overlay without alpha.
PxShowOverlay ==
    /\ px.stage = "rendered"
    /\ px' = [px EXCEPT !.stage = "masked",
                        !.mask = ThresholdInv(Gray(px.overlay))]
    /\ UNCHANGED <<sessionVars, geom>>

\* _get_preview_image, lines 113-117.
PxComposite ==
    /\ px.stage = "masked"
    /\ px' = [px EXCEPT !.stage = "composited",
                        !.image = [c \in 1 .. 3 |->
                            Composite(px.frame[c], px.mask, px.overlay[c])]]
    /\ UNCHANGED <<sessionVars, geom>>

\* The next frame arrives under the same cached overlay.
PxNextFrame ==
    /\ px.stage = "composited"
    /\ \E fr \in FrameLevels \X FrameLevels \X FrameLevels :
          px' = [px EXCEPT !.stage = "masked", !.frame = fr,
                           !.image = <<0, 0, 0>>]
    /\ UNCHANGED <<sessionVars, geom>>

PixelNext == PxShowOverlay \/ PxComposite \/ PxNextFrame

PixelSpec == PixelInit /\ [][PixelNext]_vars

\* C18: the mask is 0 or 1, and the composite is a select: every channel
\* of the result is the frame's value or the overlay's, and where the mask
\* is 1 the sum of frame and overlay does not exceed 255.
C18_CompositeIsSelect ==
    /\ px.stage \in {"masked", "composited"} => px.mask \in {0, 1}
    /\ px.stage = "composited" =>
          \A c \in 1 .. 3 :
              /\ px.image[c] \in {px.frame[c], px.overlay[c]}
              /\ px.mask = 1 => px.frame[c] + px.overlay[c] < Byte

====
